---- MODULE Spec2Model ----
(***************************************************************************)
(* The plotting scripts of the repository as sequential state machines.    *)
(*                                                                         *)
(*   staggering.py : S_n / S_2n separation energies from a hard-coded      *)
(*                   table of binding energies, then a plot.               *)
(*   fission.py    : SEMF deformation energy Delta E = K * alpha_20^2 for  *)
(*                   four stability ratios, then a plot.                   *)
(*                                                                         *)
(* Numbers are fixed point.  Binding energies are integers in units of     *)
(* 0.001 MeV.  a_s and a_c are integers in units of 0.01 MeV.  A grid      *)
(* value of np.linspace(0, 0.5, n) is its index j = 0..n-1, in units of     *)
(* 0.5/(n-1).  A**(2/3) is floor(10 * A^(2/3)), in units of 0.1.  K is then *)
(* an integer in units of 0.0001 MeV, with the sign of the Python value.   *)
(***************************************************************************)
EXTENDS Integers, Sequences, FiniteSets, TLC

VARIABLES
    prog,                   \* which program runs: "staggering", "fission", "delta_e"
    installed,              \* the libraries the interpreter can import
    pc,                     \* position of the run
    error,                  \* the unhandled exception that ended the run, or "none"
    stdout,                 \* lines printed so far
    called,                 \* plot_separation_energies has been entered
    binding_energies_mev,   \* staggering.py: the table (local of the function)
    all_a,                  \* staggering.py: sorted mass numbers
    idx,                    \* position of the running for loop in its sequence
    a,                      \* staggering.py: loop variable
    sn,                     \* staggering.py: last S_n computed
    s2n,                    \* staggering.py: last S_2n computed
    a_plot_sn,
    sn_plot,
    a_plot_s2n,
    s2n_plot,
    lines,                  \* the (x, y) series handed to plt.plot so far
    ALPHA_20_SQUARED_values,\* fission.py: the grid
    R,                      \* fission.py: ratio of the current iteration
    K,                      \* fission.py: slope computed by the last call
    delta_e_values,         \* fission.py: result of the last call on the grid
    args,                   \* delta_e: arguments of a single call
    result                  \* delta_e: value returned by the single call

vars == << prog, installed, pc, error, stdout, called, binding_energies_mev,
           all_a, idx, a, sn, s2n, a_plot_sn, sn_plot, a_plot_s2n, s2n_plot,
           lines, ALPHA_20_SQUARED_values, R, K, delta_e_values, args, result >>

stagVars == << binding_energies_mev, all_a, idx, a, sn, s2n,
               a_plot_sn, sn_plot, a_plot_s2n, s2n_plot >>

fisVars == << ALPHA_20_SQUARED_values, R, K, delta_e_values >>

----------------------------------------------------------------------------
(* Bounds of the inputs drawn for a single call of calculate_delta_e.      *)

MaxArgA == 2

MaxArgR == 1

MaxArgCoef == 1

MaxArgAlpha == 1

----------------------------------------------------------------------------
(* staggering.py: data and pure helpers                                    *)

\* src/staggering.py:22-49, values in 0.001 MeV
BindingTable ==
    (108 :> 916733) @@ (109 :> 924381) @@ (110 :> 933435) @@ (111 :> 940380) @@
    (112 :> 949191) @@ (113 :> 956402) @@ (114 :> 965342) @@ (115 :> 972783) @@
    (116 :> 981849) @@ (117 :> 989508) @@ (118 :> 998688) @@ (119 :> 1006554) @@
    (120 :> 1015845) @@ (121 :> 1023905) @@ (122 :> 1033298) @@ (123 :> 1041540) @@
    (124 :> 1051031) @@ (125 :> 1058913) @@ (126 :> 1068514) @@ (127 :> 1076436) @@
    (128 :> 1086130) @@ (129 :> 1094167) @@ (130 :> 1103948) @@ (131 :> 1112083) @@
    (132 :> 1121942)

EmptyTable == [k \in {} |-> 0]

\* sorted(d.keys()): the ascending list of the elements of S; its i-th element
\* is the one with exactly i-1 smaller elements
sorted(S) ==
    [i \in 1..Cardinality(S) |-> CHOOSE x \in S : Cardinality({y \in S : y < x}) = i - 1]

\* faulty variant: the slice starts one element late
SnStart_skip == 2 + 1

\* all_a[1:] : 1-based position of the first element visited
SnStart == 2

\* faulty variant: the slice starts one element late
S2nStart_skip == 3 + 1

\* all_a[2:] : 1-based position of the first element visited
S2nStart == 3

\* faulty variant: the subtraction is dropped
OneNeutron_nosub(tbl, k) == tbl[k - 1]

\* faulty variant: the operands are swapped
OneNeutron_rev(tbl, k) == tbl[k - 1] - tbl[k]

\* sn = binding_energies_mev[a] - binding_energies_mev[a - 1]
OneNeutron(tbl, k) == tbl[k] - tbl[k - 1]

\* faulty variant: the neighbour A-1 instead of A-2
TwoNeutron_off(tbl, k) == tbl[k] - tbl[k - 1]

\* s2n = binding_energies_mev[a] - binding_energies_mev[a - 2]
TwoNeutron(tbl, k) == tbl[k] - tbl[k - 2]

----------------------------------------------------------------------------
(* fission.py: constants and pure helpers                                  *)

\* A_S = 18.0, in 0.01 MeV
A_S == 1800

\* A_C = 0.72, in 0.01 MeV
A_C == 72

FIXED_A == 200

\* np.linspace(0, 0.5, 200): number of grid points
NumPoints == 200

R_ratios == << [R |-> 15, label |-> "15"], [R |-> 25, label |-> "25"],
               [R |-> 35, label |-> "35"], [R |-> 45, label |-> "45"] >>

\* np.linspace(0, 0.5, n): n values, the j-th (1-based) is (j-1) * 0.5/(n-1)
linspace(n) == [j \in 1..n |-> j - 1]

RECURSIVE CbrtBetween(_, _, _)
\* the largest r in lo..hi with r^3 <= x (lo^3 <= x), by bisection
CbrtBetween(lo, hi, x) ==
    IF lo >= hi THEN lo
    ELSE LET mid == (lo + hi + 1) \div 2
         IN  IF mid * mid * mid <= x THEN CbrtBetween(mid, hi, x)
                                     ELSE CbrtBetween(lo, mid - 1, x)

\* A**(2/3) in units of 0.1: floor of the cube root of 1000 * A^2
\* (1290^3 is the largest cube of a 32-bit integer)
Pow23(A) == CbrtBetween(0, 1290, 1000 * A * A)

\* K = A**(2/3) * ((0.4 * a_s) - (0.2 * a_c * R)), in units of 0.0001 MeV
SlopeK(A, r, a_s, a_c) == Pow23(A) * ((4 * a_s) - (2 * a_c * r))

\* faulty variant: K added to the deformation instead of multiplied
calculate_delta_e_sum(alpha, A, r, a_s, a_c) == SlopeK(A, r, a_s, a_c) + alpha

\* return K * alpha_20_squared
calculate_delta_e(alpha, A, r, a_s, a_c) == SlopeK(A, r, a_s, a_c) * alpha

\* the same call on a numpy array: elementwise
calculate_delta_e_array(alphas, A, r, a_s, a_c) ==
    [j \in 1..Len(alphas) |-> calculate_delta_e(alphas[j], A, r, a_s, a_c)]

----------------------------------------------------------------------------
(* Initial states                                                          *)

Libraries == {"matplotlib", "numpy"}

PlottedR == {R_ratios[i].R : i \in 1..Len(R_ratios)}

ArgSets == [ alpha : 0..MaxArgAlpha,
             A     : (0..MaxArgA) \cup {FIXED_A},
             R     : (0..MaxArgR) \cup PlottedR,
             a_s   : (0..MaxArgCoef) \cup {A_S},
             a_c   : (0..MaxArgCoef) \cup {A_C} ]

NoArgs == [alpha |-> 0, A |-> 0, R |-> 0, a_s |-> 0, a_c |-> 0]

InitCommon ==
    /\ error = "none"
    /\ stdout = << >>
    /\ called = FALSE
    /\ binding_energies_mev = EmptyTable
    /\ all_a = << >>
    /\ idx = 0
    /\ a = 0
    /\ sn = 0
    /\ s2n = 0
    /\ a_plot_sn = << >>
    /\ sn_plot = << >>
    /\ a_plot_s2n = << >>
    /\ s2n_plot = << >>
    /\ lines = << >>
    /\ ALPHA_20_SQUARED_values = << >>
    /\ R = 0
    /\ K = 0
    /\ delta_e_values = << >>
    /\ result = 0

Init ==
    /\ InitCommon
    /\ \/ /\ prog = "staggering"
          /\ pc = "s_import_plt"
          /\ installed \in SUBSET Libraries
          /\ args = NoArgs
       \/ /\ prog = "fission"
          /\ pc = "f_import_np"
          /\ installed \in SUBSET Libraries
          /\ args = NoArgs
       \/ /\ prog = "delta_e"
          /\ pc = "u_call"
          /\ installed = Libraries
          /\ args \in ArgSets

----------------------------------------------------------------------------
(* staggering.py                                                           *)

Crash(exc) ==
    /\ pc' = "crashed"
    /\ error' = exc

\* line 1: import matplotlib.pyplot as plt
SImportPlt ==
    /\ prog = "staggering" /\ pc = "s_import_plt"
    /\ IF "matplotlib" \in installed
         THEN pc' = "s_import_np" /\ error' = error
         ELSE Crash("ModuleNotFoundError")
    /\ UNCHANGED << prog, installed, stdout, called, stagVars, lines, fisVars,
                    args, result >>

\* line 2: import numpy as np
SImportNp ==
    /\ prog = "staggering" /\ pc = "s_import_np"
    /\ IF "numpy" \in installed
         THEN pc' = "s_main" /\ error' = error
         ELSE Crash("ModuleNotFoundError")
    /\ UNCHANGED << prog, installed, stdout, called, stagVars, lines, fisVars,
                    args, result >>

\* lines 110-118: the __main__ guard with its try / except ImportError / else
SMain ==
    /\ prog = "staggering" /\ pc = "s_main"
    /\ IF "matplotlib" \in installed
         THEN /\ called' = TRUE
              /\ pc' = "s_table"
              /\ stdout' = stdout
         ELSE /\ called' = called
              /\ pc' = "done"
              /\ stdout' = stdout \o << "Matplotlib not found.",
                              "Please install it using: pip install matplotlib" >>
    /\ UNCHANGED << prog, installed, error, stagVars, lines, fisVars, args, result >>

\* lines 22-49: the dict literal
STable ==
    /\ prog = "staggering" /\ pc = "s_table"
    /\ binding_energies_mev' = BindingTable
    /\ pc' = "s_sort"
    /\ UNCHANGED << prog, installed, error, stdout, called, all_a, idx, a, sn, s2n,
                    a_plot_sn, sn_plot, a_plot_s2n, s2n_plot, lines, fisVars,
                    args, result >>

\* lines 52-62: all_a = sorted(keys); the four empty lists
SSort ==
    /\ prog = "staggering" /\ pc = "s_sort"
    /\ all_a' = sorted(DOMAIN binding_energies_mev)
    /\ a_plot_sn' = << >> /\ sn_plot' = << >>
    /\ a_plot_s2n' = << >> /\ s2n_plot' = << >>
    /\ idx' = SnStart
    /\ pc' = "sn_head"
    /\ UNCHANGED << prog, installed, error, stdout, called, binding_energies_mev,
                    a, sn, s2n, lines, fisVars, args, result >>

\* line 65: for a in all_a[1:]  (next element, or leave the loop)
SnHead ==
    /\ prog = "staggering" /\ pc = "sn_head"
    /\ IF idx <= Len(all_a)
         THEN /\ a' = all_a[idx]
              /\ idx' = idx + 1
              /\ pc' = "sn_test"
         ELSE /\ a' = a
              /\ idx' = S2nStart
              /\ pc' = "s2n_head"
    /\ UNCHANGED << prog, installed, error, stdout, called, binding_energies_mev,
                    all_a, sn, s2n, a_plot_sn, sn_plot, a_plot_s2n, s2n_plot,
                    lines, fisVars, args, result >>

\* line 66: if (a - 1) in binding_energies_mev
SnTest ==
    /\ prog = "staggering" /\ pc = "sn_test"
    /\ pc' = IF (a - 1) \in DOMAIN binding_energies_mev THEN "sn_calc" ELSE "sn_head"
    /\ UNCHANGED << prog, installed, error, stdout, called, stagVars, lines,
                    fisVars, args, result >>

\* faulty variant: the lookup of B(A-1) removes the entry (dict.pop)
SnCalc_pop ==
    /\ prog = "staggering" /\ pc = "sn_calc"
    /\ sn' = OneNeutron(binding_energies_mev, a)
    /\ binding_energies_mev' =
           [k \in (DOMAIN binding_energies_mev) \ {a - 1} |-> binding_energies_mev[k]]
    /\ pc' = "sn_app_a" /\ error' = error
    /\ UNCHANGED << prog, installed, stdout, called, all_a, idx, a,
                    s2n, a_plot_sn, sn_plot, a_plot_s2n, s2n_plot, lines, fisVars,
                    args, result >>

\* line 67: the two lookups (KeyError on a missing key) and the difference
SnCalc ==
    /\ prog = "staggering" /\ pc = "sn_calc"
    /\ IF a \in DOMAIN binding_energies_mev /\ (a - 1) \in DOMAIN binding_energies_mev
         THEN /\ sn' = OneNeutron(binding_energies_mev, a)
              /\ pc' = "sn_app_a" /\ error' = error
         ELSE /\ sn' = sn
              /\ Crash("KeyError")
    /\ UNCHANGED << prog, installed, stdout, called, binding_energies_mev, all_a, idx, a,
                    s2n, a_plot_sn, sn_plot, a_plot_s2n, s2n_plot, lines, fisVars,
                    args, result >>

\* line 68: a_plot_sn.append(a)
SnAppendA ==
    /\ prog = "staggering" /\ pc = "sn_app_a"
    /\ a_plot_sn' = Append(a_plot_sn, a)
    /\ pc' = "sn_app_v"
    /\ UNCHANGED << prog, installed, error, stdout, called, binding_energies_mev,
                    all_a, idx, a, sn, s2n, sn_plot, a_plot_s2n, s2n_plot, lines,
                    fisVars, args, result >>

\* faulty variant: the value is not appended
SnAppendV_skip ==
    /\ prog = "staggering" /\ pc = "sn_app_v"
    /\ pc' = "sn_head"
    /\ UNCHANGED << prog, installed, error, stdout, called, stagVars, lines,
                    fisVars, args, result >>

\* line 69: sn_plot.append(sn)
SnAppendV ==
    /\ prog = "staggering" /\ pc = "sn_app_v"
    /\ sn_plot' = Append(sn_plot, sn)
    /\ pc' = "sn_head"
    /\ UNCHANGED << prog, installed, error, stdout, called, binding_energies_mev,
                    all_a, idx, a, sn, s2n, a_plot_sn, a_plot_s2n, s2n_plot, lines,
                    fisVars, args, result >>

\* line 72: for a in all_a[2:]  (next element, or leave the loop)
S2nHead ==
    /\ prog = "staggering" /\ pc = "s2n_head"
    /\ IF idx <= Len(all_a)
         THEN /\ a' = all_a[idx]
              /\ idx' = idx + 1
              /\ pc' = "s2n_test"
         ELSE /\ a' = a
              /\ idx' = idx
              /\ pc' = "s_plot_sn"
    /\ UNCHANGED << prog, installed, error, stdout, called, binding_energies_mev,
                    all_a, sn, s2n, a_plot_sn, sn_plot, a_plot_s2n, s2n_plot,
                    lines, fisVars, args, result >>

\* line 73: if (a - 2) in binding_energies_mev
S2nTest ==
    /\ prog = "staggering" /\ pc = "s2n_test"
    /\ pc' = IF (a - 2) \in DOMAIN binding_energies_mev THEN "s2n_calc" ELSE "s2n_head"
    /\ UNCHANGED << prog, installed, error, stdout, called, stagVars, lines,
                    fisVars, args, result >>

\* line 74: the two lookups (KeyError on a missing key) and the difference
S2nCalc ==
    /\ prog = "staggering" /\ pc = "s2n_calc"
    /\ IF a \in DOMAIN binding_energies_mev /\ (a - 2) \in DOMAIN binding_energies_mev
         THEN /\ s2n' = TwoNeutron(binding_energies_mev, a)
              /\ pc' = "s2n_app_a" /\ error' = error
         ELSE /\ s2n' = s2n
              /\ Crash("KeyError")
    /\ UNCHANGED << prog, installed, stdout, called, binding_energies_mev, all_a, idx, a,
                    sn, a_plot_sn, sn_plot, a_plot_s2n, s2n_plot, lines, fisVars,
                    args, result >>

\* line 75: a_plot_s2n.append(a)
S2nAppendA ==
    /\ prog = "staggering" /\ pc = "s2n_app_a"
    /\ a_plot_s2n' = Append(a_plot_s2n, a)
    /\ pc' = "s2n_app_v"
    /\ UNCHANGED << prog, installed, error, stdout, called, binding_energies_mev,
                    all_a, idx, a, sn, s2n, a_plot_sn, sn_plot, s2n_plot, lines,
                    fisVars, args, result >>

\* line 76: s2n_plot.append(s2n)
S2nAppendV ==
    /\ prog = "staggering" /\ pc = "s2n_app_v"
    /\ s2n_plot' = Append(s2n_plot, s2n)
    /\ pc' = "s2n_head"
    /\ UNCHANGED << prog, installed, error, stdout, called, binding_energies_mev,
                    all_a, idx, a, sn, s2n, a_plot_sn, sn_plot, a_plot_s2n, lines,
                    fisVars, args, result >>

\* plt.plot(x, y, ...): one more series on the figure; x and y of different
\* lengths raise ValueError
PlotCall(x, y, after) ==
    IF Len(x) = Len(y)
      THEN lines' = Append(lines, << x, y >>) /\ pc' = after /\ error' = error
      ELSE lines' = lines /\ Crash("ValueError")

\* lines 79-83: plt.figure and the S_n series
SPlotSn ==
    /\ prog = "staggering" /\ pc = "s_plot_sn"
    /\ PlotCall(a_plot_sn, sn_plot, "s_plot_s2n")
    /\ UNCHANGED << prog, installed, stdout, called, stagVars, fisVars, args, result >>

\* lines 86-87: the S_2n series
SPlotS2n ==
    /\ prog = "staggering" /\ pc = "s_plot_s2n"
    /\ PlotCall(a_plot_s2n, s2n_plot, "s_style")
    /\ UNCHANGED << prog, installed, stdout, called, stagVars, fisVars, args, result >>

\* lines 90-107: labels, legend, grid, axvline, text box, tight_layout
SStyle ==
    /\ prog = "staggering" /\ pc = "s_style"
    /\ pc' = "s_show"
    /\ UNCHANGED << prog, installed, error, stdout, called, stagVars, lines,
                    fisVars, args, result >>

\* faulty variant: plt.show() never returns
SShow_block ==
    /\ prog = "staggering" /\ pc = "s_show"
    /\ UNCHANGED vars

\* line 108: plt.show(), the last statement of the run
SShow ==
    /\ prog = "staggering" /\ pc = "s_show"
    /\ pc' = "done"
    /\ UNCHANGED << prog, installed, error, stdout, called, stagVars, lines,
                    fisVars, args, result >>

----------------------------------------------------------------------------
(* fission.py                                                              *)

\* line 1: import numpy as np
FImportNp ==
    /\ prog = "fission" /\ pc = "f_import_np"
    /\ IF "numpy" \in installed
         THEN pc' = "f_import_plt" /\ error' = error
         ELSE Crash("ModuleNotFoundError")
    /\ UNCHANGED << prog, installed, stdout, called, stagVars, lines, fisVars,
                    args, result >>

\* line 2: import matplotlib.pyplot as plt
FImportPlt ==
    /\ prog = "fission" /\ pc = "f_import_plt"
    /\ IF "matplotlib" \in installed
         THEN pc' = "f_setup" /\ error' = error
         ELSE Crash("ModuleNotFoundError")
    /\ UNCHANGED << prog, installed, stdout, called, stagVars, lines, fisVars,
                    args, result >>

\* lines 7-43: constants, the function, the grid, R_ratios, plt.figure
FSetup ==
    /\ prog = "fission" /\ pc = "f_setup"
    /\ ALPHA_20_SQUARED_values' = linspace(NumPoints)
    /\ idx' = 1
    /\ pc' = "f_head"
    /\ UNCHANGED << prog, installed, error, stdout, called, binding_energies_mev,
                    all_a, a, sn, s2n, a_plot_sn, sn_plot, a_plot_s2n, s2n_plot,
                    lines, R, K, delta_e_values, args, result >>

\* lines 45-47: for ratio_data in R_ratios  (next element, or leave the loop)
FHead ==
    /\ prog = "fission" /\ pc = "f_head"
    /\ IF idx <= Len(R_ratios)
         THEN /\ R' = R_ratios[idx].R
              /\ idx' = idx + 1
              /\ pc' = "f_calc"
         ELSE /\ R' = R
              /\ idx' = idx
              /\ pc' = "f_style"
    /\ UNCHANGED << prog, installed, error, stdout, called, binding_energies_mev,
                    all_a, a, sn, s2n, a_plot_sn, sn_plot, a_plot_s2n, s2n_plot,
                    lines, ALPHA_20_SQUARED_values, K, delta_e_values, args, result >>

\* line 50: delta_e_values = calculate_delta_e(grid, FIXED_A, R, A_S, A_C)
FCalc ==
    /\ prog = "fission" /\ pc = "f_calc"
    /\ K' = SlopeK(FIXED_A, R, A_S, A_C)
    /\ delta_e_values' =
           calculate_delta_e_array(ALPHA_20_SQUARED_values, FIXED_A, R, A_S, A_C)
    /\ pc' = "f_plot"
    /\ UNCHANGED << prog, installed, error, stdout, called, stagVars, lines,
                    ALPHA_20_SQUARED_values, R, args, result >>

\* line 54: plt.plot(ALPHA_20_SQUARED_values, delta_e_values, ...)
FPlot ==
    /\ prog = "fission" /\ pc = "f_plot"
    /\ PlotCall(ALPHA_20_SQUARED_values, delta_e_values, "f_head")
    /\ UNCHANGED << prog, installed, stdout, called, stagVars, fisVars, args, result >>

\* lines 58-74: title, labels, axhline, grid, legend, limits, tight_layout
FStyle ==
    /\ prog = "fission" /\ pc = "f_style"
    /\ pc' = "f_show"
    /\ UNCHANGED << prog, installed, error, stdout, called, stagVars, lines,
                    fisVars, args, result >>

\* line 75: plt.show(), the last statement of the run
FShow ==
    /\ prog = "fission" /\ pc = "f_show"
    /\ pc' = "done"
    /\ UNCHANGED << prog, installed, error, stdout, called, stagVars, lines,
                    fisVars, args, result >>

----------------------------------------------------------------------------
(* one call of calculate_delta_e on scalar arguments                       *)

CallDeltaE ==
    /\ prog = "delta_e" /\ pc = "u_call"
    /\ K' = SlopeK(args.A, args.R, args.a_s, args.a_c)
    /\ result' = calculate_delta_e(args.alpha, args.A, args.R, args.a_s, args.a_c)
    /\ pc' = "done"
    /\ UNCHANGED << prog, installed, error, stdout, called, stagVars, lines,
                    ALPHA_20_SQUARED_values, R, delta_e_values, args >>

----------------------------------------------------------------------------

Next ==
    \/ SImportPlt \/ SImportNp \/ SMain \/ STable \/ SSort
    \/ SnHead \/ SnTest \/ SnCalc \/ SnAppendA \/ SnAppendV
    \/ S2nHead \/ S2nTest \/ S2nCalc \/ S2nAppendA \/ S2nAppendV
    \/ SPlotSn \/ SPlotS2n \/ SStyle \/ SShow
    \/ FImportNp \/ FImportPlt \/ FSetup \/ FHead \/ FCalc \/ FPlot \/ FStyle \/ FShow
    \/ CallDeltaE

Spec == Init /\ [][Next]_vars

\* the interpreter runs a script's next statement whenever there is one
FairSpec == Spec /\ WF_vars(Next)

----------------------------------------------------------------------------
(* Properties                                                              *)

Range(s) == {s[i] : i \in 1..Len(s)}

Min2(x, y) == IF x <= y THEN x ELSE y

StrictlyIncreasing(s) == \A i \in 1..(Len(s) - 1) : s[i] < s[i + 1]

Terminal == {"done", "crashed"}

\* positions of staggering.py after both loops have ended
AfterLoops == {"s_plot_sn", "s_plot_s2n", "s_style", "s_show"}

LoopsOver == prog = "staggering" /\ (pc \in AfterLoops \/ (pc = "done" /\ called))

\* C1: every mass number A stored in a_plot_sn has, at the same index of
\* sn_plot, the value B(A) - B(A-1) of the hard-coded table (in 0.001 MeV).
C1_SnFromTable ==
    \A i \in 1..Min2(Len(a_plot_sn), Len(sn_plot)) :
        /\ a_plot_sn[i] \in DOMAIN BindingTable
        /\ (a_plot_sn[i] - 1) \in DOMAIN BindingTable
        /\ sn_plot[i] = BindingTable[a_plot_sn[i]] - BindingTable[a_plot_sn[i] - 1]

C1_Witness ==
    /\ prog = "staggering" /\ pc = "done"
    /\ Len(sn_plot) = 24
    /\ a_plot_sn[1] = 109 /\ sn_plot[1] = 7648
    /\ a_plot_sn[24] = 132 /\ sn_plot[24] = 9859

\* C2: every mass number A stored in a_plot_s2n has, at the same index of
\* s2n_plot, the value B(A) - B(A-2) of the hard-coded table (in 0.001 MeV).
C2_S2nFromTable ==
    \A i \in 1..Min2(Len(a_plot_s2n), Len(s2n_plot)) :
        /\ a_plot_s2n[i] \in DOMAIN BindingTable
        /\ (a_plot_s2n[i] - 2) \in DOMAIN BindingTable
        /\ s2n_plot[i] = BindingTable[a_plot_s2n[i]] - BindingTable[a_plot_s2n[i] - 2]

C2_Witness ==
    /\ prog = "staggering" /\ pc = "s_show"
    /\ Len(s2n_plot) = 23
    /\ a_plot_s2n[1] = 110 /\ s2n_plot[1] = 16702
    /\ a_plot_s2n[23] = 132 /\ s2n_plot[23] = 17994

\* C3: calculate_delta_e returns 0 when alpha_20_squared is 0, whatever A, R,
\* a_s and a_c are; so every curve computed and every curve plotted by
\* fission.py starts at 0.
C3_ZeroAtZeroDeformation ==
    /\ (prog = "delta_e" /\ pc = "done" /\ args.alpha = 0) => result = 0
    /\ (prog = "fission" /\ pc = "f_plot") =>
           (ALPHA_20_SQUARED_values[1] = 0 /\ delta_e_values[1] = 0)
    /\ prog = "fission" =>
           \A i \in 1..Len(lines) : lines[i][1][1] = 0 /\ lines[i][2][1] = 0

C3_Witness ==
    /\ prog = "fission" /\ pc = "done"
    /\ Len(lines) = 4
    /\ \A i \in 1..4 : lines[i][2][1] = 0 /\ lines[i][2][2] # 0

\* C4: when staggering.py runs without matplotlib, it prints its message and
\* exits cleanly: no unhandled import failure, no call of
\* plot_separation_energies.
C4_MissingMatplotlibHandled ==
    (prog = "staggering" /\ "matplotlib" \notin installed) =>
        /\ error = "none"
        /\ ~called
        /\ pc \in Terminal =>
               /\ pc = "done"
               /\ stdout = << "Matplotlib not found.",
                              "Please install it using: pip install matplotlib" >>

\* C5: for A = 200, a_s = 18.0, a_c = 0.72 the slope K is positive at R = 35
\* and negative at R = 45 (the critical ratio lies between 35 and 45).
C5_CriticalRatioBetween35And45 ==
    (prog = "fission" /\ pc = "f_plot") =>
        /\ R = 35 => K > 0
        /\ R = 45 => K < 0

\* C6: even-odd staggering of S_n: for every even A in a_plot_sn, S_n(A) is
\* strictly greater than S_n(A-1) and S_n(A+1) whenever those are in a_plot_sn.
C6_EvenOddStaggering ==
    \A i, j \in 1..Min2(Len(a_plot_sn), Len(sn_plot)) :
        ( /\ a_plot_sn[i] % 2 = 0
          /\ (a_plot_sn[j] = a_plot_sn[i] - 1 \/ a_plot_sn[j] = a_plot_sn[i] + 1) )
        => sn_plot[i] > sn_plot[j]

C6_Witness ==
    /\ prog = "staggering" /\ pc = "s_plot_sn"
    /\ \E i \in 2..(Len(sn_plot) - 1) :
           /\ a_plot_sn[i] = 124
           /\ a_plot_sn[i - 1] = 123 /\ a_plot_sn[i + 1] = 125
           /\ sn_plot[i] > sn_plot[i - 1] /\ sn_plot[i] > sn_plot[i + 1]

\* C7: array lengths match their grids: after every loop iteration of
\* staggering.py the x and y lists of each series are equally long, and in
\* fission.py each delta_e_values has the 200 points of the grid; no plot call
\* is made with mismatched lengths.
C7_LengthsMatch ==
    /\ pc # "sn_app_v" => Len(a_plot_sn) = Len(sn_plot)
    /\ pc # "s2n_app_v" => Len(a_plot_s2n) = Len(s2n_plot)
    /\ (prog = "fission" /\ pc = "f_plot") =>
           /\ Len(delta_e_values) = Len(ALPHA_20_SQUARED_values)
           /\ Len(delta_e_values) = 200
    /\ \A i \in 1..Len(lines) : Len(lines[i][1]) = Len(lines[i][2])
    /\ prog = "fission" => \A i \in 1..Len(lines) : Len(lines[i][2]) = 200
    /\ error # "ValueError"

C7_Witness ==
    /\ prog = "staggering" /\ pc = "s_style"
    /\ Len(lines) = 2
    /\ Len(lines[1][1]) = 24 /\ Len(lines[1][2]) = 24
    /\ Len(lines[2][1]) = 23 /\ Len(lines[2][2]) = 23

\* C8: binding_energies_mev is read-only: from its construction on, in every
\* state, it has exactly the keys and values of the literal.
C8_TableReadOnly ==
    (called /\ pc # "s_table") =>
        /\ DOMAIN binding_energies_mev = DOMAIN BindingTable
        /\ \A k \in DOMAIN BindingTable : binding_energies_mev[k] = BindingTable[k]

C8_Witness ==
    /\ prog = "staggering" /\ pc = "done" /\ called
    /\ Len(sn_plot) = 24 /\ Len(s2n_plot) = 23
    /\ binding_energies_mev = BindingTable

\* order of the steps: build input -> apply formula -> plot -> show, and each
\* loop stays within its finite sequence
C9_Order ==
    /\ prog = "staggering" =>
          /\ sn_plot # << >> => (binding_energies_mev = BindingTable /\ all_a # << >>)
          /\ pc \in {"sn_head", "sn_test", "sn_calc", "sn_app_a", "sn_app_v",
                     "s2n_head", "s2n_test", "s2n_calc", "s2n_app_a", "s2n_app_v"}
                => (idx <= Len(all_a) + 1 /\ lines = << >>)
          /\ lines # << >> => (LoopsOver \/ pc = "crashed")
          /\ (pc \in {"s_style", "s_show"} \/ (pc = "done" /\ called)) => Len(lines) = 2
    /\ prog = "fission" =>
          /\ delta_e_values # << >> => Len(ALPHA_20_SQUARED_values) = NumPoints
          /\ pc \in {"f_head", "f_calc", "f_plot"} => idx <= Len(R_ratios) + 1
          /\ pc = "f_head" => Len(lines) = idx - 1
          /\ pc = "f_plot" => Len(lines) = idx - 2
          /\ pc \in {"f_style", "f_show", "done"} => Len(lines) = Len(R_ratios)

\* C9: each script terminates; its loops run over fixed finite sequences, its
\* steps come in the order build -> formula -> plot -> show, and once the
\* body of plot_separation_energies or the loop of fission.py has been
\* entered the run reaches the end of its last statement.
C9_RunsToCompletion ==
    /\ []C9_Order
    /\ <>(pc \in Terminal)
    /\ (pc = "s_table" \/ pc = "f_head") ~> (pc = "done")

C9_Witness ==
    /\ prog = "fission" /\ pc = "done"
    /\ Len(lines) = 4 /\ idx = Len(R_ratios) + 1

\* C10: no lookup of a missing key, and after the loops a_plot_sn holds exactly
\* the keys A with A-1 a key and a_plot_s2n exactly the keys A with A-2 a key,
\* each strictly increasing: 109..132 (24 points) and 110..132 (23 points).
C10_LookupsAndPointSets ==
    /\ error # "KeyError"
    /\ pc = "sn_calc" =>
           {a, a - 1} \subseteq DOMAIN binding_energies_mev
    /\ pc = "s2n_calc" =>
           {a, a - 2} \subseteq DOMAIN binding_energies_mev
    /\ StrictlyIncreasing(a_plot_sn) /\ StrictlyIncreasing(a_plot_s2n)
    /\ LoopsOver =>
           /\ Range(a_plot_sn) =
                  {k \in DOMAIN BindingTable : (k - 1) \in DOMAIN BindingTable}
           /\ Range(a_plot_sn) = 109..132 /\ Len(a_plot_sn) = 24
           /\ Range(a_plot_s2n) =
                  {k \in DOMAIN BindingTable : (k - 2) \in DOMAIN BindingTable}
           /\ Range(a_plot_s2n) = 110..132 /\ Len(a_plot_s2n) = 23

C10_Witness ==
    /\ prog = "staggering" /\ pc = "s_plot_sn"
    /\ Len(a_plot_sn) = 24 /\ Len(a_plot_s2n) = 23
    /\ a_plot_sn[1] = 109 /\ a_plot_s2n[1] = 110

====
